---- MODULE Spec2Model ----
(***************************************************************************)
(* Model of typing_arguments/generic_arguments.py: GenericArgumentsMixin   *)
(* (__class_getitem__ behind functools.lru_cache, __init_subclass__) and   *)
(* the typing_arg descriptor.                                              *)
(*                                                                         *)
(* Classes are numbered in creation order.  A class is a record            *)
(*   bases      : __bases__, a sequence of class numbers                   *)
(*   mro        : __mro__ (C3 linearisation, object left out)              *)
(*   parameters : __parameters__, a sequence of type variables             *)
(*   own        : TRUE iff "__typing_arguments__" is in the class __dict__ *)
(*   targs      : the value of that entry, a function TypeVar -> type      *)
(*   typedOf    : the class this one was synthesized from by               *)
(*                __class_getitem__ (its name is "Typed" + that name),     *)
(*                0 for any other class                                    *)
(*   origin     : for a submodel made by pydantic's                        *)
(*                BaseModel.__class_getitem__, the model it parameterizes *)
(*                (__pydantic_generic_metadata__["origin"]), 0 otherwise  *)
(*   args       : the types of that parameterization                       *)
(*   pparams    : __pydantic_generic_metadata__["parameters"] of a         *)
(*                subclass of pydantic.BaseModel                           *)
(*                                                                         *)
(* pydantic tells which _PydanticBaseModel the module got at import: the  *)
(* real pydantic.BaseModel (TRUE), or the empty stand-in class of the      *)
(* except ImportError branch (FALSE).                                      *)
(***************************************************************************)
EXTENDS Integers, Sequences, FiniteSets, TLC

VARIABLES classes, aliases, cache, returned, ret, pydantic

vars == <<classes, aliases, cache, returned, ret, pydantic>>

\* ---------------------------------------------------------------- bounds
\* A step creates classes only while fewer classes than the bound exist; the
\* parameterization of a pydantic model adds two classes at once.

\* Classes (the three predefined ones included) up to which a run of Spec
\* goes on creating.
MaxClasses == 5

\* Classes (the three predefined ones included) up to which a run of SpecDeep
\* goes on creating.
MaxDeepClasses == 7

\* Classes (the three predefined ones included) up to which a run of SpecKeys
\* goes on creating.
MaxKeyClasses == 7

\* Classes (the three predefined ones included) up to which a run of SpecCache
\* goes on creating.
MaxCacheClasses == 7

\* Classes (the three predefined ones included) up to which a run of SpecMulti
\* goes on creating.
MaxMultiClasses == 10

\* In SpecMulti, a generic class is written directly on the mixin only while
\* fewer classes than this exist.
MaxMultiRoots == 5

\* Most parameterizations a run of SpecMulti performs.
MaxMultiAliases == 3

\* Most classes written with a class statement in a run of SpecMulti.
MaxMultiDeclared == 4

\* ------------------------------------------------------------ input sets

TypeVars == {"T1", "T2"}

Types == {"str", "int"}

\* The parameter lists a class statement may hand to Generic[...]: non-empty,
\* without duplicates (typing rejects the others); <<>> stands for a class
\* statement without Generic[...].
GenericLists == {<<>>, <<"T1">>, <<"T2">>, <<"T1", "T2">>, <<"T2", "T1">>}

\* What may stand between the brackets of cls[...]: one type, or a tuple of
\* zero to three types.
Subscripts ==
    [tuple : {FALSE}, items : {<<t>> : t \in Types}]
    \cup [tuple : {TRUE},
          items : {<<>>} \cup {<<t>> : t \in Types}
                  \cup {<<s, t>> : s \in Types, t \in Types}
                  \cup {<<"str", "int", "str">>}]

\* ------------------------------------------------------ predefined classes

GenericArgumentsMixin == 1

Generic == 2

PydanticBaseModel == 3

EmptyMap == [v \in {} |-> "str"]

RootClass == [bases |-> <<>>, mro |-> <<>>, parameters |-> <<>>,
              own |-> FALSE, targs |-> EmptyMap, typedOf |-> 0,
              origin |-> 0, args |-> <<>>, pparams |-> <<>>]

\* ------------------------------------------------------ Python semantics

Range(s) == {s[i] : i \in 1..Len(s)}

\* A merge in which the entries of a win.
OverlayFirstWins(a, b) ==
    [v \in DOMAIN a \cup DOMAIN b |-> IF v \in DOMAIN a THEN a[v] ELSE b[v]]

\* {**a, **b}: the entries of b win.
Overlay(a, b) ==
    [v \in DOMAIN a \cup DOMAIN b |-> IF v \in DOMAIN b THEN b[v] ELSE a[v]]

\* Zip with the supplied types paired from the wrong end.
ZipReversed(parameters, params) ==
    [v \in Range(parameters) |->
        params[Len(parameters) + 1
               - CHOOSE i \in 1..Len(parameters) : parameters[i] = v]]

\* dict(zip(parameters, params, strict=True)) for sequences of equal length
\* without duplicate parameters.
Zip(parameters, params) ==
    [v \in Range(parameters) |->
        params[CHOOSE i \in 1..Len(parameters) : parameters[i] = v]]

InTail(c, s) == \E i \in 2..Len(s) : s[i] = c

\* The merge step of the C3 linearisation; a 0 in the result marks an
\* inconsistent hierarchy (the class statement raises TypeError).
RECURSIVE C3Merge(_)
C3Merge(seqs) ==
    LET ne == SelectSeq(seqs, LAMBDA s : s # <<>>)
    IN  IF ne = <<>> THEN <<>>
        ELSE LET good == {i \in 1..Len(ne) :
                            \A j \in 1..Len(ne) : ~InTail(ne[i][1], ne[j])}
             IN  IF good = {} THEN <<0>>
                 ELSE LET i == CHOOSE k \in good : \A m \in good : k <= m
                          h == ne[i][1]
                      IN  <<h>> \o C3Merge([j \in 1..Len(ne) |->
                                  IF ne[j][1] = h THEN Tail(ne[j]) ELSE ne[j]])

\* __mro__ of a class numbered c with the given __bases__.
MroOf(cl, c, bases) ==
    <<c>> \o C3Merge([i \in 1..Len(bases) |-> cl[bases[i]].mro] \o <<bases>>)

issubclass(cl, c, d) == d \in Range(cl[c].mro)

\* hasattr(c, TYPING_ATTRIBUTE_NAME): some class of the mro has the entry.
hasattr(cl, c) == \E i \in 1..Len(cl[c].mro) : cl[cl[c].mro[i]].own

\* getattr(c, TYPING_ATTRIBUTE_NAME): the entry of the first such class.
getattr(cl, c) ==
    LET m == cl[c].mro
        i == CHOOSE k \in 1..Len(m) :
                 cl[m[k]].own /\ \A j \in 1..(k - 1) : ~cl[m[j]].own
    IN  cl[m[i]].targs

\* ----------------------------------------------------- __init_subclass__

\* The loop cut down to the first base.
base_typing_args_first(cl, bases, i, acc) ==
    IF i = 0 \/ ~hasattr(cl, bases[1]) THEN acc ELSE getattr(cl, bases[1])

\* for base in reversed(cls.__bases__): base_typing_args.update(...),
\* from position i down to 1.
RECURSIVE base_typing_args(_, _, _, _)
base_typing_args(cl, bases, i, acc) ==
    IF i = 0 THEN acc
    ELSE base_typing_args(cl, bases, i - 1,
            IF hasattr(cl, bases[i]) THEN Overlay(acc, getattr(cl, bases[i]))
            ELSE acc)

\* __init_subclass__ that looks at the class body only: a class without an
\* entry of its own starts from the empty map, the bases are not consulted.
init_subclass_own_only(cl, c) ==
    IF cl[c].own THEN cl ELSE [cl EXCEPT ![c].own = TRUE, ![c].targs = EmptyMap]

\* GenericArgumentsMixin.__init_subclass__ on the class numbered c of cl
\* (just created, with the entries of its class body): the classes after.
init_subclass(cl, c) ==
    LET cl1 == IF ~hasattr(cl, c)
               THEN [cl EXCEPT ![c].own = TRUE, ![c].targs = EmptyMap]
               ELSE cl
        typing_args == getattr(cl1, c)
        merged == base_typing_args(cl1, cl1[c].bases, Len(cl1[c].bases), EmptyMap)
    IN  [cl1 EXCEPT ![c].own = TRUE, ![c].targs = Overlay(merged, typing_args)]

\* The class with this mro is made by pydantic's ModelMetaclass: the real
\* pydantic.BaseModel is among its ancestors.
is_model(mro) == pydantic /\ PydanticBaseModel \in Range(mro)

\* ModelMetaclass.__new__, getattr(cls, "__pydantic_generic_metadata__") on
\* the class being made: the parameters of the first subclass of BaseModel
\* that follows it in its mro (none for BaseModel itself).
parent_parameters(cl, mro) ==
    LET models == {i \in 2..Len(mro) :
                     PydanticBaseModel \in Range(cl[mro[i]].mro)}
    IN  IF models = {} THEN <<>>
        ELSE cl[mro[CHOOSE i \in models : \A j \in models : i <= j]].pparams

\* ModelMetaclass.__new__: parameters = cls.__parameters__ or
\* parent_parameters.
generic_parameters(cl, mro, parameters) ==
    IF parameters # <<>> THEN parameters ELSE parent_parameters(cl, mro)

\* ModelMetaclass.__new__ raises TypeError ("All parameters must be present
\* on typing.Generic") for a model whose parameters leave out one of its
\* parent's.
metaclass_refuses(cl, mro, parameters) ==
    /\ is_model(mro)
    /\ generic_parameters(cl, mro, parameters) # <<>>
    /\ parent_parameters(cl, mro) # <<>>
    /\ ~(Range(parent_parameters(cl, mro))
            \subseteq Range(generic_parameters(cl, mro, parameters)))

\* type.__new__ for a class with the given bases, __parameters__ and class
\* body (origin and args are what pydantic hands its metaclass for a
\* submodel): the class is appended and, when GenericArgumentsMixin is among
\* its ancestors, GenericArgumentsMixin.__init_subclass__ runs on it.
new_class(cl, bases, parameters, own, targs, typedOf, origin, args) ==
    LET c == Len(cl) + 1
        mro == MroOf(cl, c, bases)
        cl1 == Append(cl, [bases |-> bases, mro |-> mro,
                           parameters |-> parameters, own |-> own,
                           targs |-> targs, typedOf |-> typedOf,
                           origin |-> origin, args |-> args,
                           pparams |->
                               IF origin # 0 \/ ~is_model(mro) THEN <<>>
                               ELSE generic_parameters(cl, mro, parameters)])
    IN  IF GenericArgumentsMixin \in Range(mro)
        THEN init_subclass(cl1, c)
        ELSE cl1

\* ------------------------------------------------------------------ Init

Init ==
    /\ classes = <<[RootClass EXCEPT !.mro = <<GenericArgumentsMixin>>],
                   [RootClass EXCEPT !.mro = <<Generic>>],
                   [RootClass EXCEPT !.mro = <<PydanticBaseModel>>]>>
    /\ aliases = <<>>
    /\ cache = EmptyMap
    /\ returned = {}
    /\ ret = [op |-> "import"]
    /\ pydantic \in BOOLEAN

\* ----------------------------------------------------- __class_getitem__

\* if not isinstance(params, tuple): params = (params,)
as_tuple(params) ==
    IF ~params.tuple THEN <<params.items[1]>> ELSE params.items

\* bool(params): a type is true, a tuple is true unless empty.
truth(params) == ~params.tuple \/ params.items # <<>>

\* Only too few types are refused (a zip that is not strict drops the rest).
wrong_count_fewer(parameters, params) == Len(parameters) > Len(params)

\* len(cls.__parameters__) != len(params)
wrong_count(parameters, params) == Len(parameters) # Len(params)

\* The fresh bindings alone.
merge_typing_args_fresh(cl, cls, fresh) == fresh

\* typing_args: the fresh bindings, laid over the map the class already has
\* when it has one.
merge_typing_args(cl, cls, fresh) ==
    IF hasattr(cl, cls) THEN Overlay(getattr(cl, cls), fresh) ELSE fresh

\* The bindings are written into the dict of cls itself before the class is
\* synthesized (typing_args aliased to the dict of cls and updated in place).
synthesize_in_place(cl, cls, base_cls, typing_args) ==
    new_class([cl EXCEPT ![cls].targs = typing_args],
              <<base_cls>>, <<>>, TRUE, typing_args, cls, 0, <<>>)

\* types.new_class("Typed" + name, (base_cls,), {}, ...): a new class whose
\* body holds typing_args; no class that exists is touched.
synthesize(cl, cls, base_cls, typing_args) ==
    new_class(cl, <<base_cls>>, <<>>, TRUE, typing_args, cls, 0, <<>>)

\* The classes that define __class_getitem__: the mixin, typing.Generic and
\* the real pydantic.BaseModel (the stand-in class defines nothing).
Definers ==
    {GenericArgumentsMixin, Generic}
    \cup (IF pydantic THEN {PydanticBaseModel} ELSE {})

\* Attribute lookup of __class_getitem__ along the classes of s: the first
\* class that defines it, 0 when none does.
first_definer(s) ==
    LET at == {i \in 1..Len(s) : s[i] \in Definers}
    IN  IF at = {} THEN 0 ELSE s[CHOOSE i \in at : \A j \in at : i <= j]

\* super().__class_getitem__ inside the mixin's method: the lookup goes on
\* behind GenericArgumentsMixin in the mro of cls.
super_definer(cl, cls) ==
    LET m == cl[cls].mro
        i == CHOOSE k \in 1..Len(m) : m[k] = GenericArgumentsMixin
    IN  first_definer(SubSeq(m, i + 1, Len(m)))

\* typing.Generic.__class_getitem__(cls, params): TypeError when the count of
\* params is wrong, else an alias of cls, which stands for cls as a base.
generic_class_getitem(cl, cls, params) ==
    IF Len(cl[cls].parameters) # Len(params)
    THEN [outcome |-> "TypeError"]
    ELSE [outcome |-> "ok", classes |-> cl, result |-> cls]

\* pydantic's cache of parameterized models: the submodels made of cls with
\* params that the program still holds.
submodels(cl, cls, params) ==
    {c \in 1..Len(cl) : cl[c].origin = cls /\ cl[c].args = params}

\* pydantic.BaseModel.__class_getitem__(cls, params): the cached submodel; or
\* TypeError for BaseModel itself, a class that is not generic or a wrong
\* count of params; or a new submodel, a subclass of cls with an empty body.
basemodel_class_getitem(cl, cls, params) ==
    IF submodels(cl, cls, params) # {}
    THEN [outcome |-> "ok", classes |-> cl,
          result |-> CHOOSE c \in submodels(cl, cls, params) : TRUE]
    ELSE IF \/ cls = PydanticBaseModel
            \/ Generic \notin Range(cl[cls].mro)
            \/ cl[cls].pparams = <<>> /\ Generic \notin Range(cl[cls].bases)
            \/ Len(cl[cls].pparams) # Len(params)
    THEN [outcome |-> "TypeError"]
    ELSE [outcome |-> "ok",
          classes |-> new_class(cl, <<cls>>, <<>>, FALSE, EmptyMap, 0,
                                cls, params),
          result |-> Len(cl) + 1]

\* The body of GenericArgumentsMixin.__class_getitem__ (what runs on a cache
\* miss) in the classes cl and aliases al: either a TypeError, or the classes
\* and aliases after the call and the object returned.  For a subclass of
\* _PydanticBaseModel, base_cls = super().__class_getitem__(params) comes
\* before the count check: with the real BaseModel next in the mro it is a
\* pydantic submodel of cls (a new class unless cached), with typing.Generic
\* next it is an alias of cls; either raises TypeError itself when the count
\* of params is wrong.  The synthesized class derives from base_cls.
class_getitem_body(cl, al, cls, params) ==
    LET tup == as_tuple(params)
        is_model_cls == issubclass(cl, cls, PydanticBaseModel)
        super_result ==
            IF super_definer(cl, cls) = PydanticBaseModel
            THEN basemodel_class_getitem(cl, cls, tup)
            ELSE generic_class_getitem(cl, cls, tup)
        cl1 == IF is_model_cls THEN super_result.classes ELSE cl
        base_cls == IF is_model_cls THEN super_result.result ELSE cls
        typed_cls == Len(cl1) + 1
        typing_args ==
            merge_typing_args(cl, cls, Zip(cl[cls].parameters, tup))
    IN  IF cls = GenericArgumentsMixin /\ truth(params)
        THEN [outcome |-> "TypeError", why |-> "mixin"]
        ELSE IF Generic \notin Range(cl[cls].bases)
        THEN [outcome |-> "TypeError", why |-> "non-generic"]
        ELSE IF is_model_cls /\ super_result.outcome = "TypeError"
        THEN [outcome |-> "TypeError", why |-> "super"]
        ELSE IF wrong_count(cl[cls].parameters, tup)
        THEN [outcome |-> "TypeError", why |-> "count"]
        ELSE IF is_model_cls
        THEN [outcome |-> "ok",
              classes |-> synthesize(cl1, cls, base_cls, typing_args),
              aliases |-> al,
              result |-> [alias |-> FALSE, id |-> typed_cls]]
        ELSE [outcome |-> "ok",
              classes |-> synthesize(cl1, cls, base_cls, typing_args),
              aliases |-> Append(al, [origin |-> typed_cls, args |-> tup,
                                      targs |-> typing_args]),
              result |-> [alias |-> TRUE, id |-> Len(al) + 1]]

\* A key made of the subscript after it was made a tuple.
cache_key_normalized(cls, params) ==
    [cls |-> cls, params |-> [tuple |-> TRUE, items |-> as_tuple(params)]]

\* The key functools.lru_cache(typed=True) makes of the call's arguments as
\* they were passed: the class, and the subscript with its own type.
cache_key(cls, params) == [cls |-> cls, params |-> params]

\* lru_cache(maxsize=1): the new entry evicts the one before.
cache_store_latest(c, key, result) == [k \in {key} |-> result]

\* lru_cache(maxsize=None): the entry is added, nothing is evicted.
cache_store(c, key, result) ==
    [k \in DOMAIN c \cup {key} |-> IF k = key THEN result ELSE c[k]]

\* cls[params] is GenericArgumentsMixin.__class_getitem__(cls, params): the
\* mixin is the first class of the mro of cls that defines __class_getitem__.
calls_mixin(cl, cls) == first_definer(cl[cls].mro) = GenericArgumentsMixin

\* cls[params] is pydantic.BaseModel.__class_getitem__(cls, params): the
\* mixin's method and its cache are not entered.
calls_basemodel(cl, cls) == first_definer(cl[cls].mro) = PydanticBaseModel

\* cls[params], the result is in the cache: it is returned, the body does
\* not run.
class_getitem_hit(cls, params) ==
    LET key == cache_key(cls, params)
    IN  /\ calls_mixin(classes, cls)
        /\ key \in DOMAIN cache
        /\ ret' = [op |-> "class_getitem", cls |-> cls, params |-> params,
                   outcome |-> "ok", result |-> cache[key], hit |-> TRUE]
        /\ returned' = returned \cup
               {[cls |-> cls, params |-> params, result |-> cache[key]]}
        /\ UNCHANGED <<classes, aliases, cache, pydantic>>

\* cls[params], the body runs and raises: nothing is cached.
class_getitem_raise(cls, params) ==
    LET key == cache_key(cls, params)
        r == class_getitem_body(classes, aliases, cls, params)
    IN  /\ calls_mixin(classes, cls)
        /\ key \notin DOMAIN cache
        /\ r.outcome = "TypeError"
        /\ ret' = [op |-> "class_getitem", cls |-> cls, params |-> params,
                   outcome |-> "TypeError", why |-> r.why]
        /\ UNCHANGED <<classes, aliases, cache, returned, pydantic>>

\* cls[params], the body runs and returns: the result is cached.
class_getitem_miss(limit, cls, params) ==
    LET key == cache_key(cls, params)
        r == class_getitem_body(classes, aliases, cls, params)
    IN  /\ calls_mixin(classes, cls)
        /\ key \notin DOMAIN cache
        /\ r.outcome = "ok"
        /\ Len(classes) < limit
        /\ classes' = r.classes
        /\ aliases' = r.aliases
        /\ cache' = cache_store(cache, key, r.result)
        /\ returned' = returned \cup
               {[cls |-> cls, params |-> params, result |-> r.result]}
        /\ ret' = [op |-> "class_getitem", cls |-> cls, params |-> params,
                   outcome |-> "ok", result |-> r.result, hit |-> FALSE]
        /\ UNCHANGED pydantic

\* cls[params] for a class whose subscript pydantic answers (BaseModel comes
\* before the mixin in its mro): a submodel, new or cached, or a TypeError.
\* GenericArgumentsMixin.__init_subclass__ runs on a new submodel that has
\* the mixin among its ancestors.
basemodel_getitem(limit, cls, params) ==
    LET r == basemodel_class_getitem(classes, cls, as_tuple(params))
    IN  /\ calls_basemodel(classes, cls)
        /\ r.outcome = "ok" /\ r.classes # classes => Len(classes) < limit
        /\ classes' = IF r.outcome = "ok" THEN r.classes ELSE classes
        /\ ret' = IF r.outcome = "ok"
                  THEN [op |-> "basemodel_getitem", cls |-> cls,
                        params |-> params, outcome |-> "ok",
                        result |-> r.result]
                  ELSE [op |-> "basemodel_getitem", cls |-> cls,
                        params |-> params, outcome |-> "TypeError"]
        /\ UNCHANGED <<aliases, cache, returned, pydantic>>

\* ------------------------------------------------------- class statement

\* __mro_entries__: an alias stands for its origin class.
resolve_base(al, item) == IF item.alias THEN al[item.id].origin ELSE item.id

\* class X(*items, Generic[gen]) (without Generic[...] when gen is empty).
\* Python refuses a duplicate base and an inconsistent hierarchy, pydantic's
\* metaclass a model that drops a parameter of its parent.
class_statement(limit, items, gen) ==
    LET given == [i \in 1..Len(items) |-> resolve_base(aliases, items[i])]
        bases == IF gen = <<>> THEN given ELSE Append(given, Generic)
        c == Len(classes) + 1
    IN  /\ Len(classes) < limit
        /\ \A i, j \in 1..Len(bases) : bases[i] = bases[j] => i = j
        /\ 0 \notin Range(MroOf(classes, c, bases))
        /\ ~metaclass_refuses(classes, MroOf(classes, c, bases), gen)
        /\ classes' = new_class(classes, bases, gen, FALSE, EmptyMap, 0,
                                0, <<>>)
        /\ ret' = [op |-> "class", cls |-> c]
        /\ UNCHANGED <<aliases, cache, returned, pydantic>>

\* ------------------------------------------------------------ typing_arg

\* __get__ ending in dict.get: a variable that is not bound reads as None.
typing_arg_get_default(cl, type_argument, obj, obj_class) ==
    LET oc == IF obj_class = 0 THEN obj ELSE obj_class
    IN  IF ~hasattr(cl, oc)
        THEN [outcome |-> "TypeError", why |-> "no arguments"]
        ELSE IF type_argument \notin DOMAIN getattr(cl, oc)
        THEN [outcome |-> "ok", value |-> "None"]
        ELSE [outcome |-> "ok", value |-> getattr(cl, oc)[type_argument]]

\* typing_arg(type_argument).__get__(obj, obj_class); obj is the class of the
\* instance, 0 for None, and so is obj_class.
typing_arg_get(cl, type_argument, obj, obj_class) ==
    LET oc == IF obj_class = 0 THEN obj ELSE obj_class
    IN  IF ~hasattr(cl, oc)
        THEN [outcome |-> "TypeError", why |-> "no arguments"]
        ELSE IF type_argument \notin DOMAIN getattr(cl, oc)
        THEN [outcome |-> "TypeError", why |-> "not found"]
        ELSE [outcome |-> "ok", value |-> getattr(cl, oc)[type_argument]]

\* Reading the accessor of type_argument: "class" is c.attr (obj is None),
\* "instance" is c().attr, "direct" is the call __get__(c()) without a class.
read_accessor(type_argument, c, how) ==
    /\ ret' = [op |-> "get", cls |-> c, var |-> type_argument, how |-> how] @@
              typing_arg_get(classes, type_argument,
                             IF how = "class" THEN 0 ELSE c,
                             IF how = "direct" THEN 0 ELSE c)
    /\ UNCHANGED <<classes, aliases, cache, returned, pydantic>>

\* ------------------------------------------------------------------ Next

UserClasses == 4..Len(classes)

Subscriptable == {GenericArgumentsMixin} \cup UserClasses

BaseItems ==
    [alias : {FALSE},
     id : {GenericArgumentsMixin, PydanticBaseModel} \cup UserClasses]
    \cup [alias : {TRUE}, id : 1..Len(aliases)]

BaseLists ==
    {<<>>} \cup {<<a>> : a \in BaseItems}
    \cup {<<a, b>> : a \in BaseItems, b \in BaseItems}

Next ==
    \/ \E cls \in Subscriptable, params \in Subscripts :
          class_getitem_hit(cls, params)
    \/ \E cls \in Subscriptable, params \in Subscripts :
          class_getitem_raise(cls, params)
    \/ \E cls \in Subscriptable, params \in Subscripts :
          class_getitem_miss(MaxClasses, cls, params)
    \/ \E items \in BaseLists, gen \in GenericLists :
          class_statement(MaxClasses, items, gen)
    \/ \E cls \in Subscriptable, params \in Subscripts :
          basemodel_getitem(MaxClasses, cls, params)
    \/ \E v \in TypeVars, c \in UserClasses,
          how \in {"class", "instance", "direct"} :
          read_accessor(v, c, how)

Spec == Init /\ [][Next]_vars

\* The module imported with pydantic installed, as the tests run it.
InitInstalled == Init /\ pydantic

\* SpecDeep: the same program driven through the forms of the module's
\* documentation and tests only, to reach deeper hierarchies: a generic class
\* or pydantic model written directly on the mixin (and BaseModel) with one or
\* two type variables, subclasses of
\* one or two parameterized or plain classes (with or without a Generic[...]
\* of their own), subscripts of one type or of the pair (str, int).  Cache
\* hits are left to Spec, SpecKeys and SpecCache, calls that raise and reads
\* (which add no class) to Spec.

DeepSubscripts ==
    [tuple : {FALSE}, items : {<<t>> : t \in Types}]
    \cup [tuple : {TRUE}, items : {<<"str", "int">>}]

RootGenericLists == {<<"T1">>, <<"T2">>, <<"T1", "T2">>}

DeepGenericLists == {<<>>, <<"T1">>, <<"T2">>}

AliasItems == [alias : {TRUE}, id : 1..Len(aliases)]

DeclaredItems ==
    [alias : {FALSE},
     id : {c \in UserClasses :
              classes[c].typedOf = 0 /\ classes[c].origin = 0}]

\* What the parameterizations returned: aliases, and for pydantic models the
\* synthesized classes themselves.
ResultItems == {e.result : e \in returned}

DeepItems == ResultItems \cup DeclaredItems

DeepBaseLists ==
    {<<a>> : a \in DeepItems} \cup {<<a, b>> : a \in DeepItems, b \in DeepItems}

MixinItem == [alias |-> FALSE, id |-> GenericArgumentsMixin]

ModelItem == [alias |-> FALSE, id |-> PydanticBaseModel]

NextDeep ==
    \/ \E cls \in UserClasses, params \in DeepSubscripts :
          class_getitem_miss(MaxDeepClasses, cls, params)
    \/ \E gen \in RootGenericLists :
          class_statement(MaxDeepClasses, <<MixinItem>>, gen)
    \/ \E gen \in RootGenericLists :
          class_statement(MaxDeepClasses, <<MixinItem, ModelItem>>, gen)
    \/ \E items \in DeepBaseLists, gen \in DeepGenericLists :
          class_statement(MaxDeepClasses, items, gen)

SpecDeep == InitInstalled /\ [][NextDeep]_vars

\* SpecKeys: generic classes written directly on the mixin and every
\* subscript, with the cache hits.

NextKeys ==
    \/ \E cls \in UserClasses, params \in Subscripts :
          class_getitem_hit(cls, params)
    \/ \E cls \in UserClasses, params \in Subscripts :
          class_getitem_miss(MaxKeyClasses, cls, params)
    \/ \E gen \in RootGenericLists :
          class_statement(MaxKeyClasses, <<MixinItem>>, gen)

SpecKeys == InitInstalled /\ [][NextKeys]_vars

\* SpecCache: parameterizations (misses and cache hits) interleaved with
\* class statements and accessor reads: generic classes written directly on
\* the mixin, subclasses of a parameterized or plain class, and the subscripts
\* str, int, (str,) and (str, int).

CacheSubscripts ==
    [tuple : {FALSE}, items : {<<t>> : t \in Types}]
    \cup [tuple : {TRUE}, items : {<<"str">>, <<"str", "int">>}]

NextCache ==
    \/ \E cls \in UserClasses, params \in CacheSubscripts :
          class_getitem_hit(cls, params)
    \/ \E cls \in UserClasses, params \in CacheSubscripts :
          class_getitem_miss(MaxCacheClasses, cls, params)
    \/ \E gen \in RootGenericLists :
          class_statement(MaxCacheClasses, <<MixinItem>>, gen)
    \/ \E a \in DeepItems, gen \in DeepGenericLists :
          class_statement(MaxCacheClasses, <<a>>, gen)
    \/ \E v \in TypeVars, c \in UserClasses, how \in {"class", "instance"} :
          read_accessor(v, c, how)

SpecCache == InitInstalled /\ [][NextCache]_vars

\* SpecMulti: the multiple-inheritance example and what can be built on it:
\* generic classes written directly on the mixin with one type variable,
\* subscripts of one type, classes with two bases (parameterized or plain, in
\* either order), and subclasses of a class written with a class statement,
\* with or without a Generic[...] of their own; at most MaxMultiAliases
\* parameterizations and MaxMultiDeclared class statements.

TypeSubscripts == [tuple : {FALSE}, items : {<<t>> : t \in Types}]

MultiGenericLists == {<<>>, <<"T1">>}

Declared ==
    {c \in UserClasses : classes[c].typedOf = 0 /\ classes[c].origin = 0}

NextMulti ==
    \/ \E cls \in UserClasses, params \in TypeSubscripts :
          /\ Len(aliases) < MaxMultiAliases
          /\ class_getitem_miss(MaxMultiClasses, cls, params)
    \/ \E v \in TypeVars :
          class_statement(MaxMultiRoots, <<MixinItem>>, <<v>>)
    \/ \E a \in AliasItems, b \in DeepItems :
          /\ Cardinality(Declared) < MaxMultiDeclared
          /\ class_statement(MaxMultiClasses, <<a, b>>, <<>>)
    \/ \E a \in DeclaredItems, gen \in MultiGenericLists :
          /\ Cardinality(Declared) < MaxMultiDeclared
          /\ class_statement(MaxMultiClasses, <<a>>, gen)

SpecMulti == InitInstalled /\ [][NextMulti]_vars

\* ---------------------------------------------------------------- claims

\* The Binding Map a parameterization result carries, and the class behind it
\* (the synthesized class itself, or the origin of the alias).
ResultMap(r) == IF r.alias THEN aliases[r.id].targs ELSE classes[r.id].targs

ResultClass(r) == IF r.alias THEN aliases[r.id].origin ELSE r.id

\* The map m binds each formal parameter to the type supplied at its place.
BindsFormals(m, parameters, supplied) ==
    /\ Len(parameters) = Len(supplied)
    /\ \A i \in 1..Len(parameters) :
          parameters[i] \in DOMAIN m /\ m[parameters[i]] = supplied[i]

\* The map the class c carries when it carries one, the empty map otherwise.
CarriedMap(c) == IF hasattr(classes, c) THEN getattr(classes, c) ELSE EmptyMap

\* C1 as stated: every successful parameterization G[C1..Cn] returns an object
\* whose Binding Map is exactly {V1:C1, ..., Vn:Cn}, whatever G is.
C1_ExactlyTheFormals ==
    \A e \in returned :
        /\ BindsFormals(ResultMap(e.result), classes[e.cls].parameters,
                        e.params.items)
        /\ DOMAIN ResultMap(e.result) = Range(classes[e.cls].parameters)

\* C1 amended: the result of G[C1..Cn] (the returned object and the class
\* synthesized behind it) binds each Vi to Ci; its Binding Map is exactly
\* {V1:C1, ..., Vn:Cn} when G itself carries no binding, and otherwise holds
\* besides these only the bindings G carries for other variables, unchanged.
C1_FormalsBound ==
    \A e \in returned :
        \A m \in {ResultMap(e.result), classes[ResultClass(e.result)].targs} :
            /\ BindsFormals(m, classes[e.cls].parameters, e.params.items)
            /\ DOMAIN CarriedMap(e.cls) = {}
                  => DOMAIN m = Range(classes[e.cls].parameters)
            /\ DOMAIN m = Range(classes[e.cls].parameters)
                              \cup DOMAIN CarriedMap(e.cls)
            /\ \A v \in DOMAIN m \ Range(classes[e.cls].parameters) :
                  m[v] = CarriedMap(e.cls)[v]

\* A class with two formal parameters and no binding has been parameterized.
C1_Witness ==
    \E e \in returned :
        /\ Len(classes[e.cls].parameters) = 2
        /\ DOMAIN CarriedMap(e.cls) = {}
        /\ e.params.items = <<"str", "int">>
        /\ DOMAIN ResultMap(e.result) = {"T1", "T2"}

\* C2 as stated: a successful parameterization of G returns the object that
\* every earlier successful parameterization of G with the same types in the
\* same order returned, however the types were written in the subscript.
C2_SameTypesFirstObject ==
    [][ret'.op = "class_getitem" /\ ret'.outcome = "ok" =>
          \A e \in returned :
              e.cls = ret'.cls /\ as_tuple(e.params) = as_tuple(ret'.params)
                  => ret'.result = e.result]_vars

\* C2 amended: no step evicts or replaces a cache entry; every object a
\* parameterization ever returned is still the cache's entry for its class
\* and subscript as passed; and a successful parameterization of G returns
\* the object that every earlier one of G with the same subscript returned.
C2_CacheKeepsFirstResult ==
    /\ [][\A k \in DOMAIN cache :
              k \in DOMAIN cache' /\ cache'[k] = cache[k]]_vars
    /\ [](\A e \in returned :
              /\ cache_key(e.cls, e.params) \in DOMAIN cache
              /\ cache[cache_key(e.cls, e.params)] = e.result)
    /\ [][ret'.op = "class_getitem" /\ ret'.outcome = "ok" =>
              \A e \in returned :
                  e.cls = ret'.cls /\ e.params = ret'.params
                      => ret'.result = e.result]_vars

\* A parameterization was answered from the cache with the object of the
\* first call, after another parameterization of the same class was cached
\* and after a subclass of the object's class was registered.
C2_Witness ==
    /\ ret.op = "class_getitem" /\ ret.outcome = "ok" /\ ret.hit
    /\ cache[cache_key(ret.cls, ret.params)] = ret.result
    /\ \E k \in DOMAIN cache :
          /\ k.cls = ret.cls /\ k.params # ret.params
          /\ ResultClass(cache[k]) > ResultClass(ret.result)
    /\ \E c \in UserClasses :
          /\ classes[c].typedOf = 0
          /\ classes[c].bases = <<ResultClass(ret.result)>>

\* The classes written with a class statement whose only base besides the
\* Generic marker is the class p.
OnlyChildOf(c, p) ==
    /\ classes[c].typedOf = 0
    /\ classes[c].bases \in {<<p>>, <<p, Generic>>}

\* C3: a class declared on a single base class that carries a Binding Map has
\* a Binding Map of its own equal to its parent's, at every depth.
C3_ChildInheritsMap ==
    \A c \in UserClasses : \A p \in 1..Len(classes) :
        OnlyChildOf(c, p) /\ hasattr(classes, p)
            => classes[c].own /\ classes[c].targs = getattr(classes, p)

\* A grandchild of a parameterized class carries its non-empty map.
C3_Witness ==
    \E g \in UserClasses, c \in UserClasses, t \in UserClasses :
        /\ OnlyChildOf(g, c) /\ OnlyChildOf(c, t)
        /\ classes[t].typedOf # 0
        /\ classes[t].targs # EmptyMap
        /\ classes[g].targs = classes[t].targs

StrInt == [v \in {"T1", "T2"} |-> IF v = "T1" THEN "str" ELSE "int"]

\* The class c was written with the two direct bases Base1[str], carrying
\* {T1:str}, and Base2[int], carrying {T2:int}.
OnStrAndInt(c) ==
    /\ classes[c].typedOf = 0
    /\ Len(classes[c].bases) = 2
    /\ classes[classes[c].bases[1]].typedOf # 0
    /\ classes[classes[c].bases[2]].typedOf # 0
    /\ classes[classes[c].bases[1]].targs = [v \in {"T1"} |-> "str"]
    /\ classes[classes[c].bases[2]].targs = [v \in {"T2"} |-> "int"]

\* The class d is c, or descends from c through class statements that name
\* a single base each.
RECURSIVE PlainDescendant(_, _)
PlainDescendant(d, c) ==
    \/ d = c
    \/ \E p \in c..(d - 1) : OnlyChildOf(d, p) /\ PlainDescendant(p, c)

\* A class created through the mixin has a Binding Map that binds every type
\* variable bound by an ancestor carrying a Binding Map.
BindsWhatAncestorsBind(c) ==
    /\ classes[c].own
    /\ \A a \in Range(classes[c].mro) :
          hasattr(classes, a) =>
              DOMAIN getattr(classes, a) \subseteq DOMAIN classes[c].targs

\* C4 as stated: a class created through the mixin binds every type variable
\* that an ancestor carrying a Binding Map binds; a class on Base1[str] and
\* Base2[int] has the map {T1:str, T2:int}, and so has every subclass of it.
C4_EverySubclassSameMap ==
    /\ \A c \in UserClasses :
          issubclass(classes, c, GenericArgumentsMixin)
              => BindsWhatAncestorsBind(c)
    /\ \A c \in UserClasses :
          OnStrAndInt(c) =>
              \A d \in UserClasses :
                  issubclass(classes, d, c) => classes[d].targs = StrInt

\* C4 amended: a class created through the mixin binds every type variable
\* that an ancestor carrying a Binding Map binds; a class on Base1[str] and
\* Base2[int] has the map {T1:str, T2:int}; every subclass of it binds T1 and
\* T2, and has the map {T1:str, T2:int} when it descends from it through
\* class statements that name a single base each.
C4_AncestorBindingsKept ==
    /\ \A c \in UserClasses :
          issubclass(classes, c, GenericArgumentsMixin)
              => BindsWhatAncestorsBind(c)
    /\ \A c \in UserClasses :
          OnStrAndInt(c) =>
              /\ classes[c].targs = StrInt
              /\ \A d \in UserClasses :
                    issubclass(classes, d, c) =>
                        /\ DOMAIN classes[d].targs = {"T1", "T2"}
                        /\ PlainDescendant(d, c) => classes[d].targs = StrInt

\* A child of a class on Base1[str] and Base2[int] carries {T1:str, T2:int}.
C4_Witness ==
    \E c \in UserClasses, d \in UserClasses :
        /\ OnStrAndInt(c)
        /\ OnlyChildOf(d, c)
        /\ classes[d].targs = StrInt

\* The class and subscript are among those the parameterization must refuse.
MustRaise(cls, params) ==
    \/ cls = GenericArgumentsMixin /\ params.items # <<>>
    \/ Generic \notin Range(classes[cls].bases)
    \/ Len(params.items) # Len(classes[cls].parameters)

\* C5: a parameterization of the root mixin with parameters, of a class
\* without the Generic marker among its direct bases, or with a wrong number
\* of types ends in TypeError, creates no class or alias and leaves no cache
\* entry (so the same call raises again).
C5_RefusedCallsRaise ==
    /\ [](/\ ret.op = "class_getitem" /\ MustRaise(ret.cls, ret.params)
                => ret.outcome = "TypeError"
          /\ \A k \in DOMAIN cache : ~MustRaise(k.cls, k.params))
    /\ [][ret'.op = "class_getitem" /\ ret'.outcome = "TypeError"
            => UNCHANGED <<classes, aliases, cache, returned>>]_vars

\* A generic class was given more types than it has parameters, and the call
\* raised.
C5_Witness ==
    /\ ret.op = "class_getitem" /\ ret.outcome = "TypeError"
    /\ Generic \in Range(classes[ret.cls].bases)
    /\ Len(ret.params.items) > Len(classes[ret.cls].parameters)

\* C6: an accessor read for V on C (or on an instance of C) returns what C's
\* Binding Map holds under V when V is a key of it, and raises TypeError when
\* C has no Binding Map or the map lacks V; the read changes no state.
C6_AccessorReads ==
    /\ [](ret.op = "get" =>
            IF hasattr(classes, ret.cls)
               /\ ret.var \in DOMAIN getattr(classes, ret.cls)
            THEN ret.outcome = "ok"
                 /\ ret.value = getattr(classes, ret.cls)[ret.var]
            ELSE ret.outcome = "TypeError")
    /\ [][ret'.op = "get"
            => UNCHANGED <<classes, aliases, cache, returned>>]_vars

\* An accessor was read on an instance of a class whose map binds it.
C6_Witness ==
    /\ ret.op = "get" /\ ret.how = "instance" /\ ret.outcome = "ok"
    /\ ret.value = "int"

\* Two direct bases of the class c, the one at i declared before the one at
\* j, bind v to different types.
Collide(c, i, j, v) ==
    /\ classes[c].typedOf = 0
    /\ i \in 1..Len(classes[c].bases) /\ j \in 1..Len(classes[c].bases)
    /\ i < j
    /\ hasattr(classes, classes[c].bases[i])
    /\ hasattr(classes, classes[c].bases[j])
    /\ v \in DOMAIN getattr(classes, classes[c].bases[i])
    /\ v \in DOMAIN getattr(classes, classes[c].bases[j])
    /\ getattr(classes, classes[c].bases[i])[v]
          # getattr(classes, classes[c].bases[j])[v]

\* C7 as stated: when two direct bases bind the same type variable to
\* different types, the new class takes the binding of the base declared
\* later.
C7_LaterBaseWins ==
    \A c \in UserClasses, v \in TypeVars, i \in 1..3, j \in 1..3 :
        Collide(c, i, j, v) =>
            classes[c].targs[v] = getattr(classes, classes[c].bases[j])[v]

\* C7 amended: when two direct bases bind the same type variable to different
\* types, the new class takes the binding of the base declared earlier.
C7_EarlierBaseWins ==
    \A c \in UserClasses, v \in TypeVars, i \in 1..3, j \in 1..3 :
        Collide(c, i, j, v) =>
            /\ v \in DOMAIN classes[c].targs
            /\ classes[c].targs[v] = getattr(classes, classes[c].bases[i])[v]

\* A class was declared on two bases that bind T1 differently.
C7_Witness ==
    \E c \in UserClasses : Collide(c, 1, 2, "T1") /\ classes[c].own

\* C8: parameterizing a class that carries a non-empty Binding Map gives a
\* map (on the returned object and on the synthesized class) that binds every
\* formal parameter to the type supplied and keeps the carried binding of
\* every other variable.
C8_FreshOverCarried ==
    \A e \in returned :
        DOMAIN CarriedMap(e.cls) # {} =>
            \A m \in {ResultMap(e.result),
                      classes[ResultClass(e.result)].targs} :
                /\ BindsFormals(m, classes[e.cls].parameters, e.params.items)
                /\ \A v \in DOMAIN CarriedMap(e.cls)
                            \ Range(classes[e.cls].parameters) :
                      v \in DOMAIN m /\ m[v] = CarriedMap(e.cls)[v]

\* A class that carried {T1:str, T2:int} with the formal parameter T1 was
\* parameterized with int: T1 is bound anew, T2 is kept.
C8_Witness ==
    \E e \in returned :
        /\ CarriedMap(e.cls) = StrInt
        /\ classes[e.cls].parameters = <<"T1">>
        /\ e.params.items = <<"int">>
        /\ ResultMap(e.result) = [v \in {"T1", "T2"} |-> "int"]

\* C9 as stated: two parameterizations of one class with the same types in
\* the same order return the same object, also when one subscript is the
\* type C and the other the tuple (C,).
C9_SameTypesSameObject ==
    \A e1 \in returned : \A e2 \in returned :
        e1.cls = e2.cls /\ e1.params.items = e2.params.items
            => e1.result = e2.result

\* C9 amended: the cache key holds the subscript as it was written; two
\* parameterizations of one class with the same subscript return the same
\* object, while C and (C,) are two keys and give two distinct objects (and
\* two distinct synthesized classes) that carry equal Binding Maps.
C9_SameSubscriptSameObject ==
    \A e1 \in returned : \A e2 \in returned :
        e1.cls = e2.cls /\ e1.params.items = e2.params.items =>
            IF e1.params = e2.params
            THEN e1.result = e2.result
            ELSE /\ e1.result # e2.result
                 /\ ResultClass(e1.result) # ResultClass(e2.result)
                 /\ ResultMap(e1.result) = ResultMap(e2.result)

\* One class was parameterized with str and with (str,).
C9_Witness ==
    \E e1 \in returned : \E e2 \in returned :
        /\ e1.cls = e2.cls
        /\ e1.params = [tuple |-> FALSE, items |-> <<"str">>]
        /\ e2.params = [tuple |-> TRUE, items |-> <<"str">>]

\* C10: no step changes a class or an alias that exists, and a generic class
\* written directly on the mixin keeps its empty Binding Map.
C10_ExistingClassesUntouched ==
    /\ [](\A c \in UserClasses :
            classes[c].bases = <<GenericArgumentsMixin, Generic>>
                => classes[c].own /\ classes[c].targs = EmptyMap)
    /\ [][/\ Len(classes') >= Len(classes)
          /\ \A c \in 1..Len(classes) : classes'[c] = classes[c]
          /\ Len(aliases') >= Len(aliases)
          /\ \A a \in 1..Len(aliases) : aliases'[a] = aliases[a]]_vars

\* A generic class with an empty map has been parameterized and the result
\* subclassed.
C10_Witness ==
    \E g \in UserClasses, t \in UserClasses, d \in UserClasses :
        /\ classes[g].bases = <<GenericArgumentsMixin, Generic>>
        /\ classes[g].targs = EmptyMap
        /\ classes[t].typedOf = g
        /\ classes[t].targs # EmptyMap
        /\ OnlyChildOf(d, t)

====
